---- MODULE Spec2Model ----
(***************************************************************************)
(* Horizon 4000 Ramdisk (src/devices/bus/ti99/peb/horizon.cpp): the card's *)
(* address decoding (readz / write), its CRU-driven page register          *)
(* (cruwrite) and the NVRAM file layout (nvram_read / nvram_write).        *)
(*                                                                         *)
(* The three memories (16 MiB NVRAM, 8 KiB ROS, 32 KiB RAM) are byte       *)
(* arrays that start zeroed; a memory is represented by the set of its     *)
(* non-zero cells <<index, byte>>.                                         *)
(***************************************************************************)
EXTENDS Integers, Sequences, FiniteSets, TLC

VARIABLES
    ioport,           \* the card's input ports (DIP switches / configuration)
    m_page,           \* page register (int)
    m_cru_horizon,    \* CRU base of the Horizon part, latched at reset
    m_cru_phoenix,    \* CRU base of the Phoenix part, latched at reset
    m_timode,
    m_32k_installed,
    m_split_mode,
    m_rambo_mode,
    m_hideswitch,
    m_use_rambo,
    m_genmod_fix,
    m_selected,       \* card select flag of the peribox card interface
    m_ram,            \* 32 KiB unbuffered RAM
    m_nvram,          \* buffered SRAM (up to 16 MiB)
    m_ros,            \* buffered 8 KiB ROS
    file,             \* the .nv file: [len, cells], or NoFile
    saved,            \* history: memory contents at the last nvram_write
    last,             \* history: the most recent callback and what it accessed
    pc,               \* position of the CRU programming sequence (SpecPaging)
    goal              \* what the programming sequence is to select (SpecPaging)

latched == <<m_cru_horizon, m_cru_phoenix, m_timode, m_32k_installed,
             m_split_mode, m_use_rambo, m_genmod_fix>>
mems    == <<m_ram, m_nvram, m_ros>>
driver  == <<pc, goal>>
vars    == <<ioport, m_page, latched, m_rambo_mode, m_hideswitch, m_selected,
             mems, file, saved, last, driver>>

-----------------------------------------------------------------------------
(* Bounds of the model *)

\* bus data bytes are drawn from 0 .. MaxData
MaxData == 1
\* memory writes stop once MaxCells cells are non-zero
MaxCells == 1

Data == 0 .. MaxData

-----------------------------------------------------------------------------
(* Program constants *)

MAXSIZE == 16777216
ROSSIZE == 8192

-----------------------------------------------------------------------------
(* C integer operators on non-negative values *)

\* the and of two 4-bit values
AndTab ==
    [x \in 0 .. 15 |-> [y \in 0 .. 15 |->
        (x % 2) * (y % 2)
        + 2 * ((x \div 2) % 2) * ((y \div 2) % 2)
        + 4 * ((x \div 4) % 2) * ((y \div 4) % 2)
        + 8 * (x \div 8) * (y \div 8)]]

Nib(a, i) == (a \div (16 ^ i)) % 16

\* a & b
BitAnd(a, b) ==
    AndTab[Nib(a, 0)][Nib(b, 0)]
    + 16 * AndTab[Nib(a, 1)][Nib(b, 1)]
    + 256 * AndTab[Nib(a, 2)][Nib(b, 2)]
    + 4096 * AndTab[Nib(a, 3)][Nib(b, 3)]
    + 65536 * AndTab[Nib(a, 4)][Nib(b, 4)]
    + 1048576 * AndTab[Nib(a, 5)][Nib(b, 5)]
    + 16777216 * AndTab[Nib(a, 6)][Nib(b, 6)]
    + 268435456 * AndTab[Nib(a, 7)][Nib(b, 7)]

\* a | b
BitOr(a, b) == a + b - BitAnd(a, b)

\* a & mask, for a mask of n one-bits that starts at bit lo
AndMask(a, lo, n) == ((a \div (2 ^ lo)) % (2 ^ n)) * (2 ^ lo)


Shl(a, n) == a * (2 ^ n)
Shr(a, n) == a \div (2 ^ n)
\* ~pattern of an int, restricted to its 31 value bits (the operand it is
\* and-ed with is never negative)
BitNot(a) == 2147483647 - a

-----------------------------------------------------------------------------
(* Byte arrays *)

Peek(mem, a) ==
    IF \E c \in mem : c[1] = a THEN (CHOOSE c \in mem : c[1] = a)[2] ELSE 0

Poke(mem, a, v) ==
    {c \in mem : c[1] # a} \cup (IF v # 0 THEN {<<a, v>>} ELSE {})

\* memset(mem, 0, n)
Clear(mem, n) == {c \in mem : c[1] >= n}

\* memcpy(dst + dpos, src + spos, n)
Copy(dst, dpos, src, spos, n) ==
    {c \in dst : c[1] < dpos \/ c[1] >= dpos + n}
        \cup {<<c[1] - spos + dpos, c[2]>> : c \in {d \in src : d[1] >= spos /\ d[1] < spos + n}}

NoFile == [len |-> -1, cells |-> {}]
NoAccess == [region |-> "none", addr |-> 0]

-----------------------------------------------------------------------------
(* Address spaces of the peripheral box *)

in_dsr_space(offset, amadec) ==
    IF amadec THEN AndMask(offset, 13, 6) = 475136      \* 0x7e000, 0x74000
    ELSE AndMask(offset, 13, 3) = 16384                  \* 0x0e000, 0x4000

in_cart_space(offset, amadec) ==
    IF amadec THEN AndMask(offset, 13, 6) = 483328      \* 0x7e000, 0x76000
    ELSE AndMask(offset, 13, 3) = 24576                  \* 0x0e000, 0x6000

-----------------------------------------------------------------------------
(* readz / write decoding *)

\* 2097152*(1 << ioport("HORIZONSIZE")->read())
NvramSize(size) == 2097152 * Shl(1, size)

\* (offset & 0xe000)>>13
Bank(offset) == Shr(AndMask(offset, 13, 3), 13)

\* RamIndex with the banks c000 and e000 sharing one base
RamIndex_bank(offset) ==
    CASE Bank(offset) = 1 -> AndMask(offset, 0, 13)
      [] Bank(offset) = 5 -> BitOr(AndMask(offset, 0, 13), 8192)
      [] Bank(offset) = 6 -> BitOr(AndMask(offset, 0, 13), 16384)
      [] Bank(offset) = 7 -> BitOr(AndMask(offset, 0, 13), 16384)

\* the index into m_ram of the four 8 KiB banks
RamIndex(offset) ==
    CASE Bank(offset) = 1 -> AndMask(offset, 0, 13)
      [] Bank(offset) = 5 -> BitOr(AndMask(offset, 0, 13), 8192)
      [] Bank(offset) = 6 -> BitOr(AndMask(offset, 0, 13), 16384)
      [] Bank(offset) = 7 -> BitOr(AndMask(offset, 0, 13), 24576)

\* HorizonIndex with a page of 1 KiB
HorizonIndex_shift(page, offset) == BitOr(Shl(page, 10), AndMask(offset, 0, 11))

\* (m_page << 11)|(offset & 0x07ff)
HorizonIndex(page, offset) == BitOr(Shl(page, 11), AndMask(offset, 0, 11))

\* offset & 0x1fff
RosIndex(offset) == AndMask(offset, 0, 13)

\* RamboIndex clearing only the rightmost page bit
RamboIndex_mask(page, offset) == BitOr(Shl(AndMask(page, 1, 15), 11), AndMask(offset, 0, 13))

\* ((m_page&0xfffc)<<11) | (offset & 0x1fff)
RamboIndex(page, offset) == BitOr(Shl(AndMask(page, 2, 14), 11), AndMask(offset, 0, 13))

\* (offset & 0x1800) == 0x1800
InPageWindow(offset) == AndMask(offset, 11, 2) = 6144

\* if (m_hideswitch) return; if (!m_selected && !m_rambo_mode) return;
Hidden == m_hideswitch \/ (~m_selected /\ ~m_rambo_mode)

\* the cell a readz of offset delivers; in RAMBO mode the cartridge space
\* test comes after the DSR space test and its assignment is the one that stays
ReadzTarget(offset) ==
    IF m_32k_installed /\ Bank(offset) \in {1, 5, 6, 7}
    THEN [region |-> "ram", addr |-> RamIndex(offset)]
    ELSE IF Hidden THEN NoAccess
    ELSE IF ~m_rambo_mode
    THEN IF in_dsr_space(offset, m_genmod_fix)
         THEN IF InPageWindow(offset)
              THEN [region |-> "nvram", addr |-> HorizonIndex(m_page, offset)]
              ELSE [region |-> "ros", addr |-> RosIndex(offset)]
         ELSE NoAccess
    ELSE IF in_cart_space(offset, m_genmod_fix)
         THEN [region |-> "nvram", addr |-> RamboIndex(m_page, offset)]
         ELSE IF in_dsr_space(offset, m_genmod_fix)
              THEN [region |-> "ros", addr |-> RosIndex(offset)]
              ELSE NoAccess

\* the cell a write to offset stores into
WriteTarget(offset) ==
    IF m_32k_installed /\ Bank(offset) \in {1, 5, 6, 7}
    THEN [region |-> "ram", addr |-> RamIndex(offset)]
    ELSE IF Hidden THEN NoAccess
    ELSE IF ~m_rambo_mode
    THEN IF in_dsr_space(offset, m_genmod_fix)
         THEN IF InPageWindow(offset)
              THEN [region |-> "nvram", addr |-> HorizonIndex(m_page, offset)]
              ELSE [region |-> "ros", addr |-> RosIndex(offset)]
         ELSE NoAccess
    ELSE IF in_cart_space(offset, m_genmod_fix)
         THEN [region |-> "nvram", addr |-> RamboIndex(m_page, offset)]
         ELSE IF in_dsr_space(offset, m_genmod_fix)
              THEN [region |-> "ros", addr |-> RosIndex(offset)]
              ELSE NoAccess

Region(name) ==
    CASE name = "ram" -> m_ram
      [] name = "nvram" -> m_nvram
      [] name = "ros" -> m_ros
      [] OTHER -> {}

\* readz(offset, value): value is the caller's byte, replaced on a hit
readz(offset, value) ==
    LET t == ReadzTarget(offset)
        v == IF t.region = "none" THEN value ELSE Peek(Region(t.region), t.addr)
    IN  /\ last' = [op |-> "readz", offset |-> offset, data |-> value,
                    region |-> t.region, addr |-> t.addr, value |-> v]
        /\ UNCHANGED <<ioport, m_page, latched, m_rambo_mode, m_hideswitch,
                       m_selected, mems, file, saved>>

CellCount(ram, nvram, ros) == Cardinality(ram) + Cardinality(nvram) + Cardinality(ros)

write(offset, data) ==
    LET t == WriteTarget(offset)
        ram   == IF t.region = "ram" THEN Poke(m_ram, t.addr, data) ELSE m_ram
        nvram == IF t.region = "nvram" THEN Poke(m_nvram, t.addr, data) ELSE m_nvram
        ros   == IF t.region = "ros" THEN Poke(m_ros, t.addr, data) ELSE m_ros
    IN  /\ CellCount(ram, nvram, ros) <= MaxCells
        /\ m_ram' = ram
        /\ m_nvram' = nvram
        /\ m_ros' = ros
        /\ last' = [op |-> "write", offset |-> offset, data |-> data,
                    region |-> t.region, addr |-> t.addr, value |-> data]
        /\ UNCHANGED <<ioport, m_page, latched, m_rambo_mode, m_hideswitch,
                       m_selected, file, saved>>

-----------------------------------------------------------------------------
(* CRU *)

\* setbit(page, pattern, set) for the int page
setbit(page, pattern, set) ==
    IF set THEN BitOr(page, pattern) ELSE BitAnd(page, BitNot(pattern))

\* int splitpagebit = 0x0200 << size
SplitPageBit(size) == Shl(512, size)

\* SplitBit one bit too low
SplitBit_low(size) == size + 9

\* int split_bit = size + 10
SplitBit(size) == size + 10

\* (offset & 0xff00)==m_cru_horizon || (offset & 0xff00)==m_cru_phoenix
CruAddressed(offset) ==
    \/ AndMask(offset, 8, 8) = m_cru_horizon
    \/ AndMask(offset, 8, 8) = m_cru_phoenix

\* int bit = (offset >> 1) & 0x0f
CruBit(offset) == AndMask(Shr(offset, 1), 0, 4)

\* the switch (bit) of cruwrite, as the new page register
PageAfterBit(bit, data, size) ==
    CASE bit = 1 -> IF ~m_rambo_mode THEN setbit(m_page, 2, data # 0) ELSE m_page
      [] bit = 2 -> IF ~m_rambo_mode THEN setbit(m_page, 1, data # 0) ELSE m_page
      [] bit \in 3 .. 9 -> setbit(m_page, Shl(1, bit - 1), data # 0)
      [] bit \in 10 .. 13 ->
            IF (bit # SplitBit(size) \/ ~m_split_mode) /\ bit <= SplitBit(size)
            THEN setbit(m_page, Shl(512, bit - 10), data # 0)
            ELSE m_page
      [] OTHER -> m_page

\* PageAfterSplit testing the Horizon base in TI mode
PageAfterSplit_base(page, offset, bit, size) ==
    IF m_split_mode
    THEN IF m_timode
         THEN setbit(page, SplitPageBit(size), AndMask(offset, 8, 8) = m_cru_horizon)
         ELSE setbit(page, SplitPageBit(size), bit > 7)
    ELSE page

\* PageAfterSplit with the second part starting above the page bits
PageAfterSplit_bit(page, offset, bit, size) ==
    IF m_split_mode
    THEN IF m_timode
         THEN setbit(page, SplitPageBit(size), AndMask(offset, 8, 8) = m_cru_phoenix)
         ELSE setbit(page, SplitPageBit(size), bit > 9)
    ELSE page

\* the if (m_split_mode) tail of cruwrite
PageAfterSplit(page, offset, bit, size) ==
    IF m_split_mode
    THEN IF m_timode
         THEN setbit(page, SplitPageBit(size), AndMask(offset, 8, 8) = m_cru_phoenix)
         ELSE setbit(page, SplitPageBit(size), bit > 7)
    ELSE page

cruwrite(offset, data) ==
    LET size == ioport.HORIZONSIZE
        bit  == CruBit(offset)
    IN  /\ IF CruAddressed(offset)
           THEN /\ m_selected' = IF bit = 0 THEN data # 0 ELSE m_selected
                /\ m_rambo_mode' = IF bit = 15 /\ m_use_rambo THEN data # 0 ELSE m_rambo_mode
                /\ m_page' = PageAfterSplit(PageAfterBit(bit, data, size), offset, bit, size)
           ELSE UNCHANGED <<m_selected, m_rambo_mode, m_page>>
        /\ last' = [op |-> "cruwrite", offset |-> offset, data |-> data,
                    region |-> "none", addr |-> 0, value |-> 0]
        /\ UNCHANGED <<ioport, latched, m_hideswitch, mems, file, saved>>

\* There is no CRU read operation for the Horizon.
crureadz(offset, value) ==
    /\ last' = [op |-> "crureadz", offset |-> offset, data |-> value,
                region |-> "none", addr |-> 0, value |-> value]
    /\ UNCHANGED <<ioport, m_page, latched, m_rambo_mode, m_hideswitch,
                   m_selected, mems, file, saved>>

-----------------------------------------------------------------------------
(* Device life cycle *)

device_reset ==
    /\ m_cru_horizon' = ioport.CRUHOR
    /\ m_cru_phoenix' = ioport.CRUPHOE
    /\ m_32k_installed' = (ioport.HORIZON32 # 0)
    /\ m_split_mode' = (ioport.HORIZONDUAL # 0)
    /\ m_timode' = (ioport.HORIZONDUAL = 1)
    /\ m_rambo_mode' = FALSE
    /\ m_hideswitch' = (ioport.HORIZONACT # 0)
    /\ m_use_rambo' = (ioport.RAMBO # 0)
    /\ m_genmod_fix' = (ioport.GENMODFIX # 0)
    /\ m_page' = 0
    /\ m_selected' = FALSE
    /\ last' = [op |-> "device_reset", offset |-> 0, data |-> 0,
                region |-> "none", addr |-> 0, value |-> 0]
    /\ UNCHANGED <<ioport, mems, file, saved>>

\* INPUT_CHANGED_MEMBER: the hide switch port has been moved to newval
hs_changed(newval) ==
    /\ ioport' = [ioport EXCEPT !.HORIZONACT = newval]
    /\ m_hideswitch' = (newval # 0)
    /\ last' = [op |-> "hs_changed", offset |-> 0, data |-> newval,
                region |-> "none", addr |-> 0, value |-> 0]
    /\ UNCHANGED <<m_page, latched, m_rambo_mode, m_selected, mems, file, saved>>

-----------------------------------------------------------------------------
(* NVRAM persistence *)

\* WriteBuffer with the ROS copied to the end of the NVRAM area
WriteBuffer_ros(nvram, ros, nvramsize) ==
    Copy(Copy({}, 0, nvram, 0, nvramsize), nvramsize - ROSSIZE, ros, 0, ROSSIZE)

\* the buffer of nvram_write: the NVRAM, then the ROS
WriteBuffer(nvram, ros, nvramsize) ==
    Copy(Copy({}, 0, nvram, 0, nvramsize), nvramsize, ros, 0, ROSSIZE)

nvram_write ==
    LET nvramsize == NvramSize(ioport.HORIZONSIZE)
        buffer    == WriteBuffer(m_nvram, m_ros, nvramsize)
    IN  /\ file' = [len |-> nvramsize + ROSSIZE, cells |-> buffer]
        /\ saved' = [nvram |-> m_nvram, ros |-> m_ros]
        /\ last' = [op |-> "nvram_write", offset |-> 0, data |-> 0,
                    region |-> "none", addr |-> 0, value |-> 0]
        /\ UNCHANGED <<ioport, m_page, latched, m_rambo_mode, m_hideswitch,
                       m_selected, mems>>

Min(a, b) == IF a < b THEN a ELSE b

nvram_read ==
    LET size      == NvramSize(ioport.HORIZONSIZE)
        filesize  == Min(file.len, MAXSIZE + ROSSIZE)
        buffer    == {c \in file.cells : c[1] < filesize}
        nvramsize == filesize - ROSSIZE
        nv0       == Clear(m_nvram, size)
        ros0      == Clear(m_ros, ROSSIZE)
    IN  /\ file # NoFile
        /\ IF nvramsize >= 0
           THEN /\ m_nvram' = Copy(nv0, 0, buffer, 0, nvramsize)
                /\ m_ros' = Copy(ros0, 0, buffer, nvramsize, ROSSIZE)
           ELSE /\ m_nvram' = nv0
                /\ m_ros' = ros0
        /\ last' = [op |-> "nvram_read", offset |-> 0, data |-> 0,
                    region |-> "none", addr |-> 0, value |-> 0]
        /\ UNCHANGED <<ioport, m_page, latched, m_rambo_mode, m_hideswitch,
                       m_selected, m_ram, file, saved>>

-----------------------------------------------------------------------------
(* Construction: constructor, device_start, nvram_default, device_reset *)

InitWith(ports) ==
    /\ ioport = ports
    /\ m_page = 0
    /\ m_cru_horizon = ports.CRUHOR
    /\ m_cru_phoenix = ports.CRUPHOE
    /\ m_timode = (ports.HORIZONDUAL = 1)
    /\ m_32k_installed = (ports.HORIZON32 # 0)
    /\ m_split_mode = (ports.HORIZONDUAL # 0)
    /\ m_rambo_mode = FALSE
    /\ m_hideswitch = (ports.HORIZONACT # 0)
    /\ m_use_rambo = (ports.RAMBO # 0)
    /\ m_genmod_fix = (ports.GENMODFIX # 0)
    /\ m_selected = FALSE
    /\ m_ram = {}
    /\ m_nvram = {}
    /\ m_ros = {}
    /\ file = NoFile
    /\ saved = [nvram |-> {}, ros |-> {}]
    /\ last = [op |-> "device_reset", offset |-> 0, data |-> 0,
               region |-> "none", addr |-> 0, value |-> 0]

\* no CRU programming sequence is running
NoDriver == pc = 0 /\ goal = [page |-> 0, o |-> 0]

\* the settings of INPUT_PORTS( horizon )
CRUHOR == {0, 4096, 4608, 5120, 5376, 5632, 5888}
CRUPHOE == {0, 5120, 5632}
Ports ==
    [CRUHOR : CRUHOR, CRUPHOE : CRUPHOE, HORIZONDUAL : 0 .. 2, HORIZONACT : 0 .. 1,
     HORIZON32 : 0 .. 1, RAMBO : 0 .. 1, HORIZONSIZE : 0 .. 3, GENMODFIX : 0 .. 1]

-----------------------------------------------------------------------------
(* Specification of the memory decoding: default CRU bases, no split *)

DecodePorts ==
    {p \in Ports : p.CRUHOR = 4608 /\ p.CRUPHOE = 0 /\ p.HORIZONDUAL = 0
                   /\ p.HORIZONSIZE = 3 /\ p.HORIZONACT = 0 /\ p.RAMBO = 1}

\* offsets on the bus: first ROS byte, last byte of the page window, first
\* byte of cartridge space, first and last byte of the 32K RAM; the DSR
\* offsets also with the AMA/AMB/AMC lines set
DecodeOffsets == {16384, 24575, 24576, 8192, 65535, 475136, 483327}

\* CRU addresses at the card's base 1200: select bit, top page bit, RAMBO bit
DecodeCru == {4608 + 2 * n : n \in {0, 13, 15}}

Init == NoDriver /\ \E p \in DecodePorts : InitWith(p)

Next ==
    \/ \E offset \in DecodeOffsets : readz(offset, MaxData) /\ UNCHANGED driver
    \/ \E offset \in DecodeOffsets, data \in Data : write(offset, data) /\ UNCHANGED driver
    \/ \E offset \in DecodeCru, data \in 0 .. 1 : cruwrite(offset, data) /\ UNCHANGED driver
    \/ crureadz(4608, 0) /\ UNCHANGED driver
    \/ \E newval \in 0 .. 1 : hs_changed(newval) /\ UNCHANGED driver
    \/ device_reset /\ UNCHANGED driver

Spec == Init /\ [][Next]_vars

-----------------------------------------------------------------------------
(* Specification of the CRU interface: every pair of CRU base settings,     *)
(* both split modes, every size                                             *)

CruPorts ==
    {p \in Ports : p.HORIZONDUAL # 0 /\ p.HORIZONACT = 0 /\ p.HORIZON32 = 0
                   /\ p.RAMBO = 0 /\ p.GENMODFIX = 0}

\* the two CRU bases of the card, the base 0000 and the base 1300 of another
\* card; the select bit, a page bit on either side of bit 8, the split bit
\* of the configured size and the RAMBO bit
CruOffsets ==
    {b + 2 * n : b \in {m_cru_horizon, m_cru_phoenix, 0, 4864},
                 n \in {0, 7, 9, 10 + ioport.HORIZONSIZE, 15}}

InitCru == NoDriver /\ \E p \in CruPorts : InitWith(p)

NextCru ==
    \/ \E offset \in CruOffsets, data \in 0 .. 1 : cruwrite(offset, data) /\ UNCHANGED driver
    \/ \E offset \in {22528, 24575} : readz(offset, 0) /\ UNCHANGED driver
    \/ device_reset /\ UNCHANGED driver

SpecCru == InitCru /\ [][NextCru]_vars

-----------------------------------------------------------------------------
(* Specification of a driver that programs a page through the CRU: it       *)
(* selects the card, writes the thirteen page bits, stores a byte through   *)
(* the 5800 window, switches RAMBO mode on and reads the four quarters of   *)
(* the RAMBO block                                                          *)

PagingPorts ==
    {p \in Ports : p.CRUHOR = 4608 /\ p.CRUPHOE = 0
                   /\ p.HORIZONACT = 0 /\ p.HORIZON32 = 0 /\ p.RAMBO = 1
                   /\ p.GENMODFIX = 0}

\* offsets within the 2 KiB page
PageOffsets == {0, 2047}

\* the bit of page number p that CRU bit n sets
PageBitOf(n) == IF n = 1 THEN 1 ELSE IF n = 2 THEN 0 ELSE n - 1
CruData(p, n) == (p \div (2 ^ PageBitOf(n))) % 2

InitPaging ==
    \E p \in PagingPorts :
        /\ InitWith(p) /\ pc = 0
        /\ goal \in [page : 0 .. (Shl(1024, p.HORIZONSIZE) - 1), o : PageOffsets]

SelectCard ==
    /\ pc = 0
    /\ cruwrite(m_cru_horizon, 1) /\ pc' = 1 /\ UNCHANGED goal

WritePageBit ==
    /\ pc \in 1 .. 13
    /\ cruwrite(m_cru_horizon + 2 * pc, CruData(goal.page, pc))
    /\ pc' = pc + 1 /\ UNCHANGED goal

StoreByte ==
    /\ pc = 14
    /\ write(22528 + goal.o, MaxData) /\ pc' = 15 /\ UNCHANGED goal

RamboOn ==
    /\ pc = 15
    /\ cruwrite(m_cru_horizon + 30, 1) /\ pc' = 16 /\ UNCHANGED goal

ReadQuarter ==
    /\ pc = 16
    /\ \E k \in 0 .. 3 : readz(24576 + k * 2048 + goal.o, 0)
    /\ pc' = 17 /\ UNCHANGED goal

NextPaging == SelectCard \/ WritePageBit \/ StoreByte \/ RamboOn \/ ReadQuarter

SpecPaging == InitPaging /\ [][NextPaging]_vars

-----------------------------------------------------------------------------
(* Specification of the NVRAM file: the memories are written through the    *)
(* bus, saved with nvram_write and loaded with nvram_read                   *)

NvramPorts ==
    {p \in Ports : p.CRUHOR = 4608 /\ p.CRUPHOE = 0 /\ p.HORIZONDUAL = 0
                   /\ p.HORIZONACT = 0 /\ p.HORIZON32 = 0 /\ p.RAMBO = 1
                   /\ p.GENMODFIX = 0}

\* select bit and the top page bit of the configured size
NvramCru == {4608 + 2 * n : n \in {0, 10 + ioport.HORIZONSIZE}}

\* first and last byte of the ROS area, last byte of the page window
NvramOffsets == {16384, 22527, 24575}

InitNvram == NoDriver /\ \E p \in NvramPorts : InitWith(p)

NextNvram ==
    \/ \E offset \in NvramOffsets, data \in Data : write(offset, data) /\ UNCHANGED driver
    \/ \E offset \in NvramCru, data \in 0 .. 1 : cruwrite(offset, data) /\ UNCHANGED driver
    \/ nvram_write /\ UNCHANGED driver
    \/ nvram_read /\ UNCHANGED driver

SpecNvram == InitNvram /\ [][NextNvram]_vars

-----------------------------------------------------------------------------
(* Address ranges as the documentation states them *)

\* the 16-bit address of a bus offset
Addr16(offset) == offset % 65536

\* 4000-5fff; with the Genmod fix the AMA/AMB/AMC lines must be set as well
DsrSpace(offset) ==
    /\ Addr16(offset) >= 16384
    /\ Addr16(offset) <= 24575
    /\ m_genmod_fix => (offset \div 65536) % 8 = 7

IsAccess(op) == op \in {"readz", "write"}

\* what a memory callback that hit region r at index a has done with the
\* memories mr, mn, ms (32K RAM, NVRAM, ROS) it found
Effect(l, r, a, mr, mn, ms) ==
    LET mem == CASE r = "ram" -> mr [] r = "nvram" -> mn [] r = "ros" -> ms
    IN  /\ l.region = r
        /\ l.addr = a
        /\ l.op = "readz" =>
              /\ l.value = Peek(mem, a)
              /\ m_ram' = mr /\ m_nvram' = mn /\ m_ros' = ms
        /\ l.op = "write" =>
              /\ \A c \in m_ram' \cup mr : r # "ram" \/ c[1] # a => c \in m_ram' \cap mr
              /\ \A c \in m_nvram' \cup mn : r # "nvram" \/ c[1] # a => c \in m_nvram' \cap mn
              /\ \A c \in m_ros' \cup ms : r # "ros" \/ c[1] # a => c \in m_ros' \cap ms
              /\ l.data # 0 => <<a, l.data>> \in (CASE r = "ram" -> m_ram' [] r = "nvram" -> m_nvram' [] r = "ros" -> m_ros')
              /\ l.data = 0 => \A c \in (CASE r = "ram" -> m_ram' [] r = "nvram" -> m_nvram' [] r = "ros" -> m_ros') : c[1] # a

-----------------------------------------------------------------------------
(* C1: Horizon mode decoding. With the card selected, the hide switch off   *)
(* and RAMBO mode off, a readz or write in DSR space whose offset has       *)
(* (offset & 0x1800) = 0x1800 accesses NVRAM byte page * 2048 + offset mod  *)
(* 2048, any other DSR offset accesses ROS byte offset mod 8192, and a      *)
(* write changes that byte and no other byte of NVRAM, ROS or 32K RAM.      *)
C1_HorizonDecoding ==
    [][(/\ IsAccess(last'.op)
        /\ m_selected /\ ~m_hideswitch /\ ~m_rambo_mode
        /\ DsrSpace(last'.offset))
       => IF Addr16(last'.offset) >= 22528
          THEN Effect(last', "nvram", m_page * 2048 + (last'.offset % 2048), m_ram, m_nvram, m_ros)
          ELSE Effect(last', "ros", last'.offset % 8192, m_ram, m_nvram, m_ros)]_vars

C1_Witness ==
    /\ last.op = "write" /\ last.data # 0
    /\ m_selected /\ ~m_hideswitch /\ ~m_rambo_mode
    /\ m_genmod_fix /\ DsrSpace(last.offset) /\ Addr16(last.offset) >= 22528
    /\ m_page = 4096
    /\ m_nvram = {<<m_page * 2048 + 2047, last.data>>}

(* C3: the 4000-5fff area requires the select bit. Whenever the card is not *)
(* selected, a readz in DSR space leaves the caller's value untouched and a *)
(* write in DSR space changes neither ROS nor NVRAM.                        *)
C3_SelectRequired ==
    [][(IsAccess(last'.op) /\ ~m_selected /\ DsrSpace(last'.offset))
       => /\ last'.op = "readz" => last'.value = last'.data
          /\ m_ros' = m_ros
          /\ m_nvram' = m_nvram]_vars

(* C4: the 32 KiB memory is not affected by the hide switch. With the       *)
(* upgrade installed, every access to 2000-3fff, a000-bfff, c000-dfff or    *)
(* e000-ffff goes to the 32K RAM at offset mod 8192 plus 0, 0x2000, 0x4000, *)
(* 0x6000, whatever the hide switch, select bit, RAMBO mode and page are,   *)
(* and neither reads nor changes ROS or NVRAM; without the upgrade these    *)
(* accesses never touch the 32K RAM.                                        *)
BankBase(a) ==
    CASE a >= 8192 /\ a <= 16383 -> 0
      [] a >= 40960 /\ a <= 49151 -> 8192
      [] a >= 49152 /\ a <= 57343 -> 16384
      [] a >= 57344 /\ a <= 65535 -> 24576
      [] OTHER -> -1

C4_Ram32K ==
    [][(IsAccess(last'.op) /\ BankBase(Addr16(last'.offset)) >= 0)
       => IF m_32k_installed
          THEN Effect(last', "ram", BankBase(Addr16(last'.offset)) + (last'.offset % 8192),
                      m_ram, m_nvram, m_ros)
          ELSE /\ last'.region # "ram"
               /\ m_ram' = m_ram]_vars

C4_Witness ==
    /\ last.op = "write" /\ last.data # 0
    /\ m_32k_installed /\ m_hideswitch /\ ~m_selected /\ m_rambo_mode /\ m_page = 4096
    /\ last.offset = 65535
    /\ m_ram = {<<32767, last.data>>}
    /\ m_nvram = {} /\ m_ros = {}

(* C9: a CRU base configured as Off is disabled. A CRU write changes the    *)
(* selection, the page register or RAMBO mode only if (offset & 0xff00) is  *)
(* a Horizon or Phoenix CRU base that is not set to Off (0x0000).           *)
C9_OffBaseDisabled ==
    [][(/\ last'.op = "cruwrite"
        /\ ~(\E b \in {m_cru_horizon, m_cru_phoenix} :
                b # 0 /\ b = last'.offset - (last'.offset % 256)))
       => UNCHANGED <<m_selected, m_page, m_rambo_mode>>]_vars

-----------------------------------------------------------------------------
(* Claims about the CRU interface *)

\* the CRU base a CRU offset addresses
BaseOf(offset) == offset - (offset % 256)

\* the CRU bit number a CRU offset addresses
BitOf(offset) == (offset \div 2) % 16

Accepted(offset) == BaseOf(offset) \in {m_cru_horizon, m_cru_phoenix}

\* the split page bit (0x0200 << size) of page register value p
SplitSet(p) == (p \div (512 * (2 ^ ioport.HORIZONSIZE))) % 2 = 1

(* C5 as stated: in TI split mode, after any accepted CRU write the split   *)
(* page bit is clear if the write was addressed to the Horizon CRU base and *)
(* set if it was addressed to the Phoenix CRU base, for every pair of base  *)
(* settings.                                                                *)
C5_TiSplit ==
    (last.op = "cruwrite" /\ m_split_mode /\ m_timode /\ Accepted(last.offset))
    => /\ BaseOf(last.offset) = m_cru_horizon => ~SplitSet(m_page)
       /\ BaseOf(last.offset) = m_cru_phoenix => SplitSet(m_page)

(* C5 amended: in TI split mode, after any accepted CRU write the split     *)
(* page bit is set if the write was addressed to the Phoenix CRU base, and  *)
(* clear if it was addressed to a Horizon CRU base that differs from the    *)
(* Phoenix CRU base.                                                        *)
C5_TiSplitByPhoenixBase ==
    (last.op = "cruwrite" /\ m_split_mode /\ m_timode /\ Accepted(last.offset))
    => (SplitSet(m_page) <=> BaseOf(last.offset) = m_cru_phoenix)

C5_Witness ==
    /\ last.op = "cruwrite" /\ m_split_mode /\ m_timode
    /\ m_cru_phoenix = 5632 /\ m_cru_horizon = 5120
    /\ BaseOf(last.offset) = m_cru_phoenix
    /\ BitOf(last.offset) = 7 /\ last.data = 0
    /\ ioport.HORIZONSIZE = 3
    /\ m_page = 4096 + 256

(* C6: in Geneve split mode the part is selected by the CRU bit number.     *)
(* After an accepted CRU write with a bit number above 8 the split page bit *)
(* is set, after one with a bit number below 8 it is clear; a CRU write     *)
(* that is not accepted and a memory access leave the part as it is, and a  *)
(* memory access to the NVRAM goes to the part selected that way.           *)
C6_GeneveSplit ==
    [][(m_split_mode /\ ~m_timode)
       => /\ (last'.op = "cruwrite" /\ Accepted(last'.offset) /\ BitOf(last'.offset) > 8)
                => SplitSet(m_page')
          /\ (last'.op = "cruwrite" /\ Accepted(last'.offset) /\ BitOf(last'.offset) < 8)
                => ~SplitSet(m_page')
          /\ (last'.op = "cruwrite" /\ ~Accepted(last'.offset))
                => (SplitSet(m_page') <=> SplitSet(m_page))
          /\ IsAccess(last'.op)
                => /\ SplitSet(m_page') <=> SplitSet(m_page)
                   /\ last'.region = "nvram"
                         => (SplitSet(last'.addr \div 2048) <=> SplitSet(m_page))]_vars

C6_Witness ==
    /\ m_split_mode /\ ~m_timode
    /\ last.op = "readz" /\ last.region = "nvram"
    /\ ioport.HORIZONSIZE = 2
    /\ SplitSet(last.addr \div 2048)
    /\ m_page = 2048 + 64

-----------------------------------------------------------------------------
(* Claims about paging *)

\* the Horizon page number the driver has written: CRU bit 1 carries the
\* least significant bit, CRU bit 2 the next, CRU bit n bit n - 1
HorizonNumber(p) == CruData(p, 1) + 2 * CruData(p, 2) + 4 * (p \div 4)

\* the Horizon pages of RAMBO page n, in the order of its four quarters
RamboSequence(n) == <<4 * n, 4 * n + 2, 4 * n + 1, 4 * n + 3>>

\* the quarter of the RAMBO page the driver has read
Quarter == (last.offset - 24576) \div 2048

(* C2: RAMBO page n covers the Horizon pages 4n, 4n+2, 4n+1, 4n+3 in this   *)
(* sequence. A byte stored through the 5800 window after Horizon page       *)
(* number h was written through the CRU page bits is the byte that RAMBO    *)
(* mode delivers at 6000 + k * 0x800 + o exactly for the quarter k whose    *)
(* entry in the sequence of block n = h div 4 is h; it is the same cell.    *)
C2_RamboOrder ==
    pc = 17 =>
        LET h == HorizonNumber(goal.page)
            covered == RamboSequence(h \div 4)[Quarter + 1] = h
        IN  /\ last.region = "nvram"
            /\ last.offset = 24576 + Quarter * 2048 + goal.o
            /\ covered <=> last.value = MaxData
            /\ covered <=> m_nvram = {<<last.addr, MaxData>>}

C2_Witness ==
    /\ pc = 17
    /\ last.value = MaxData
    /\ Quarter = 1
    /\ HorizonNumber(goal.page) = 4 * 1023 + 2
    /\ goal.o = 2047

(* C8: the card is able to use its whole configured memory. With split mode *)
(* off, for every size s and every page p below 1024 << s the CRU writes of *)
(* the driver can all be made and leave p in the page register, and the     *)
(* 5800 window then accesses NVRAM byte p * 2048 + o.                       *)
C8_WholeMemory ==
    ~m_split_mode =>
        /\ pc < 17 => ENABLED NextPaging
        /\ pc \in 14 .. 15 => m_page = goal.page
        /\ pc = 15 => /\ last.region = "nvram"
                      /\ last.addr = goal.page * 2048 + goal.o
                      /\ m_nvram = {<<goal.page * 2048 + goal.o, MaxData>>}

C8_Witness ==
    /\ ~m_split_mode /\ pc = 15
    /\ ioport.HORIZONSIZE = 3
    /\ m_page = 8191
    /\ last.addr = 16777215

-----------------------------------------------------------------------------
(* Claims about the NVRAM file *)

Below(mem, n) == {c \in mem : c[1] < n}

(* C7: nvram_write emits the first 2 MiB << size NVRAM bytes followed by    *)
(* the 8192 ROS bytes, and nvram_read of that file under the same size      *)
(* leaves those NVRAM bytes and all ROS bytes as they were at nvram_write.  *)
C7_RoundTrip ==
    LET size == 2097152 * (2 ^ ioport.HORIZONSIZE)
    IN  /\ file # NoFile =>
            /\ file.len = size + 8192
            /\ file.cells = Below(saved.nvram, size)
                              \cup {<<size + c[1], c[2]>> : c \in saved.ros}
        /\ last.op = "nvram_read" =>
            /\ Below(m_nvram, size) = Below(saved.nvram, size)
            /\ m_ros = saved.ros

C7_Witness ==
    /\ last.op = "nvram_read"
    /\ ioport.HORIZONSIZE = 3
    /\ m_ros = {<<6143, MaxData>>}
    /\ file.cells = {<<16777216 + 6143, MaxData>>}

====
